---- MODULE Spec2Model ----
(***************************************************************************)
(* Secret keys of rust-eos (keys/src/secret.rs): the WIF codec, the raw    *)
(* byte constructor and signing, as a state machine of one caller that     *)
(* holds at most one SecretKey and calls the operations one at a time.     *)
(* Bytes are integers 0..255, byte strings are sequences of bytes and      *)
(* text is a sequence of one-character strings.                            *)
(***************************************************************************)
EXTENDS Integers, Sequences, FiniteSets, TLC

VARIABLES sk, call, ret, encoded

vars == <<sk, call, ret, encoded>>

(***************************************************************************)
(* Byte-string helpers.                                                    *)
(***************************************************************************)
Rep(b, n) == [i \in 1..n |-> b]

Reverse(s) == [i \in 1..Len(s) |-> s[Len(s) + 1 - i]]

Drop(s, n) == SubSeq(s, n + 1, Len(s))

Take(s, n) == SubSeq(s, 1, n)

\* Number of leading elements of s equal to x.
LeadingCount(s, x) ==
    IF \A i \in 1..Len(s) : s[i] = x THEN Len(s)
    ELSE (CHOOSE i \in 1..Len(s) : s[i] # x /\ \A j \in 1..(i - 1) : s[j] = x) - 1

\* Big-endian comparison of two byte strings of the same length: a < b.
LessBytes(a, b) ==
    \E i \in 1..Len(a) : a[i] < b[i] /\ \A j \in 1..(i - 1) : a[j] = b[j]

(***************************************************************************)
(* Base58Check codec (crate::base58).                                      *)
(***************************************************************************)
BASE58_CHARS ==
    << "1","2","3","4","5","6","7","8","9",
       "A","B","C","D","E","F","G","H","J","K","L","M","N","P","Q","R","S",
       "T","U","V","W","X","Y","Z",
       "a","b","c","d","e","f","g","h","i","j","k","m","n","o","p","q","r",
       "s","t","u","v","w","x","y","z" >>

Base == Len(BASE58_CHARS)

IsBase58Char(c) == \E i \in 1..Base : BASE58_CHARS[i] = c

DigitOf(c) == (CHOOSE i \in 1..Base : BASE58_CHARS[i] = c) - 1

\* Big numbers are held as limbs of two bytes, so that one step of the
\* conversion handles two base-58 digits within 32-bit arithmetic.
Limb == 256 * 256

Base2 == Base * Base

\* The big-endian limbs of a big-endian byte string (padded in front to an
\* even length), and back.
LimbsOf(bytes) ==
    LET pad == <<0>> \o bytes
        odd == Len(bytes) % 2
    IN  [i \in 1..((Len(bytes) + odd) \div 2) |->
            IF odd = 1 THEN pad[2 * i - 1] * 256 + pad[2 * i]
                       ELSE bytes[2 * i - 1] * 256 + bytes[2 * i]]

BytesOf(limbs) ==
    [i \in 1..(2 * Len(limbs)) |->
        IF i % 2 = 1 THEN limbs[(i + 1) \div 2] \div 256 ELSE limbs[i \div 2] % 256]

\* num * Base2 + carry on little-endian limbs, grown by a limb when the carry
\* runs out of the most significant one.
RECURSIVE MulAdd(_, _)
MulAdd(num, carry) ==
    IF num = <<>> THEN (IF carry = 0 THEN <<>> ELSE <<carry>>)
    ELSE <<(Head(num) * Base2 + carry) % Limb>>
            \o MulAdd(Tail(num), (Head(num) * Base2 + carry) \div Limb)

\* Quotient and remainder of big-endian limbs by Base2, entered with the
\* remainder of the limbs above.
RECURSIVE DivMod(_, _)
DivMod(num, rem) ==
    IF num = <<>> THEN << <<>>, rem >>
    ELSE LET cur  == rem * Limb + Head(num)
             rest == DivMod(Tail(num), cur % Base2)
         IN  << <<cur \div Base2>> \o rest[1], rest[2] >>

IsZero(num) == \A i \in 1..Len(num) : num[i] = 0

\* The base-58 digits of big-endian limbs, most significant first, in pairs.
RECURSIVE Digits(_)
Digits(num) ==
    IF IsZero(num) THEN <<>>
    ELSE LET qr == DivMod(num, 0)
         IN  Digits(Drop(qr[1], LeadingCount(qr[1], 0)))
                \o <<qr[2] \div Base, qr[2] % Base>>

\* base58::encode_slice: leading zero bytes become leading '1's, the rest is
\* written in base 58 without leading zero digits.
encode_slice(data) ==
    LET zeros == LeadingCount(data, 0)
        pairs == Digits(LimbsOf(Drop(data, zeros)))
        ds    == Drop(pairs, LeadingCount(pairs, 0))
    IN  Rep(BASE58_CHARS[1], zeros) \o [i \in 1..Len(ds) |-> BASE58_CHARS[ds[i] + 1]]

\* The number spelled by an even number of base-58 digits, as little-endian
\* limbs.
RECURSIVE Number(_)
Number(ds) ==
    IF ds = <<>> THEN <<>>
    ELSE MulAdd(Number(Take(ds, Len(ds) - 2)),
                ds[Len(ds) - 1] * Base + ds[Len(ds)])

\* Errors are records: the module that raised them, the kind and its payload.
Error(src, kind, arg) == [src |-> src, kind |-> kind, arg |-> arg]

NoError == Error("None", "None", <<>>)

Ok(v) == [tag |-> "Ok", val |-> v, err |-> NoError]

Err(e) == [tag |-> "Err", val |-> <<>>, err |-> e]

\* An unwinding panic of the calling thread.
Panic(e) == [tag |-> "Panic", val |-> <<>>, err |-> e]

\* Stand-in for the 256-bit hash of the external digest library: a
\* deterministic 32-byte digest of a byte string.
RECURSIVE Mix(_, _, _)
Mix(data, lo, hi) ==
    IF lo > hi THEN 0
    ELSE IF lo = hi THEN (data[lo] + 1) * (1 + ((lo * lo * 31 + lo * 7) % 251))
    ELSE LET mid == (lo + hi) \div 2
         IN  Mix(data, lo, mid) + Mix(data, mid + 1, hi)

Sha256(data) ==
    LET h == (Mix(data, 1, Len(data)) + Len(data) + 7) % 65521
    IN  [i \in 1..32 |-> (h * i + (h \div 256) + i * i) % 256]

\* First 4 bytes of the double application of the hash.
checksum(data) == Take(Sha256(Sha256(data)), 4)

check_encode_slice(data) == encode_slice(data \o checksum(data))

\* base58::from: text to bytes; every leading '1' is one leading zero byte.
from(text) ==
    IF \E i \in 1..Len(text) : ~IsBase58Char(text[i])
    THEN Err(Error("Base58", "BadByte", <<>>))
    ELSE LET ones  == LeadingCount(text, BASE58_CHARS[1])
             rest  == Drop(text, ones)
             ds    == [i \in 1..Len(rest) |-> DigitOf(rest[i])]
             even  == IF Len(ds) % 2 = 1 THEN <<0>> \o ds ELSE ds
             bytes == BytesOf(Reverse(Number(even)))
         IN  Ok(Rep(0, ones) \o Drop(bytes, LeadingCount(bytes, 0)))

from_check(text) ==
    LET dec == from(text)
    IN  IF dec.tag # "Ok" THEN dec
        ELSE IF Len(dec.val) < 4
        THEN Err(Error("Base58", "TooShort", <<Len(dec.val)>>))
        ELSE LET ck_start == Len(dec.val) - 4
                 payload  == Take(dec.val, ck_start)
             IN  IF checksum(payload) # Drop(dec.val, ck_start)
                 THEN Err(Error("Base58", "BadChecksum", <<>>))
                 ELSE Ok(payload)

(***************************************************************************)
(* The curve library (secp256k1) and the digest library, as far as the     *)
(* key code calls them.                                                    *)
(***************************************************************************)
SECRET_KEY_SIZE == 32

MESSAGE_SIZE == 32

\* The order of the secp256k1 group, big-endian.
CURVE_ORDER ==
    Rep(255, 15) \o <<254, 186, 174, 220, 230, 175, 72, 160, 59,
                      191, 210, 94, 140, 208, 54, 65, 65>>

\* (CURVE_ORDER - 1) / 2, big-endian: the largest low S.
HALF_ORDER ==
    <<127>> \o Rep(255, 15) \o <<93, 87, 110, 115, 87, 164, 80, 29,
                                 223, 233, 47, 70, 104, 27, 32, 160>>

\* seckey_verify: nonzero and below the group order.
ValidScalar(bytes) ==
    /\ Len(bytes) = SECRET_KEY_SIZE
    /\ ~IsZero(bytes)
    /\ LessBytes(bytes, CURVE_ORDER)

InvalidSecretKey == Error("Secp256k1", "InvalidSecretKey", <<>>)

InvalidMessage == Error("Secp256k1", "InvalidMessage", <<>>)

\* secp256k1::SecretKey::from_slice
SecpSecretKeyFromSlice(data) ==
    IF Len(data) # SECRET_KEY_SIZE THEN Err(InvalidSecretKey)
    ELSE IF ~ValidScalar(data) THEN Err(InvalidSecretKey)
    ELSE Ok(data)

\* secp256k1::SecretKey::new: draws until a draw is a valid scalar; draws is
\* what the random source yields, and its last draw is valid.
RECURSIVE SecpSecretKeyNew(_)
SecpSecretKeyNew(draws) ==
    IF ValidScalar(Head(draws)) THEN Head(draws)
    ELSE SecpSecretKeyNew(Tail(draws))

\* secp256k1::Message::from_slice
SecpMessageFromSlice(data) ==
    IF Len(data) # MESSAGE_SIZE THEN Err(InvalidMessage) ELSE Ok(data)

\* a - b on big-endian byte strings of the same length, a >= b: a byte
\* borrows when the bytes below it are less in a than in b.
SubBytes(a, b) ==
    [i \in 1..Len(a) |->
        (256 + a[i] - b[i] - (IF LessBytes(Drop(a, i), Drop(b, i)) THEN 1 ELSE 0)) % 256]

\* A digest read as a scalar of the group.
ToScalar(d) ==
    IF ValidScalar(d) THEN d ELSE [d EXCEPT ![1] = 0, ![Len(d)] = 1]

IsLowS(s) == ~LessBytes(HALF_ORDER, s)

\* ECDSA with a recovery id and a deterministic nonce: the pair (r, s) is a
\* function of the message and the key; s is anywhere in 1..order-1.
SecpSignRecoverable(msg, key) ==
    LET r == ToScalar(Sha256(key \o msg))
        s == ToScalar(Sha256(r \o key \o msg))
    IN  [recid |-> r[Len(r)] % 2, r |-> r, s |-> s]

\* The canonical signing call: the same signature normalized to low S.
SecpSignCanonical(msg, key) ==
    LET sig == SecpSignRecoverable(msg, key)
    IN  IF IsLowS(sig.s) THEN sig
        ELSE [recid |-> 1 - sig.recid, r |-> sig.r,
              s |-> SubBytes(CURVE_ORDER, sig.s)]

(***************************************************************************)
(* crate::signature::Signature                                             *)
(***************************************************************************)
SignatureFrom(recv_sig) == recv_sig

is_canonical(sig) == IsLowS(sig.s)

(***************************************************************************)
(* SecretKey (keys/src/secret.rs).                                         *)
(***************************************************************************)
SecretKey(compressed, network, key) ==
    [compressed |-> compressed, network |-> network, key |-> key]

\* The caller holds no key yet.
NoKey == SecretKey(FALSE, "None", <<>>)

generate(draws) == SecretKey(FALSE, "Mainnet", SecpSecretKeyNew(draws))

to_bytes(self) == self.key

\* fmt_wif as it would be with the compressed key encoded from &ret[..33].
wif_buffer_cut(self) ==
    LET ret0 == Rep(0, 34)
        ret1 == [ret0 EXCEPT ![1] = CASE self.network = "Mainnet" -> 128
                                      [] self.network = "Testnet" -> 239]
        ret2 == [i \in 1..34 |-> IF i \in 2..33 THEN self.key[i - 1] ELSE ret1[i]]
    IN  Take(ret2, 33)

\* fmt_wif as it would be without ret[33] = 1.
wif_buffer_unmarked(self) ==
    LET ret0 == Rep(0, 34)
        ret1 == [ret0 EXCEPT ![1] = CASE self.network = "Mainnet" -> 128
                                      [] self.network = "Testnet" -> 239]
        ret2 == [i \in 1..34 |-> IF i \in 2..33 THEN self.key[i - 1] ELSE ret1[i]]
    IN  IF self.compressed THEN ret2 ELSE Take(ret2, 33)

\* The slice of ret that fmt_wif hands to check_encode_slice.
wif_buffer(self) ==
    LET ret0 == Rep(0, 34)
        ret1 == [ret0 EXCEPT ![1] = CASE self.network = "Mainnet" -> 128
                                      [] self.network = "Testnet" -> 239]
        ret2 == [i \in 1..34 |-> IF i \in 2..33 THEN self.key[i - 1] ELSE ret1[i]]
    IN  IF self.compressed
        THEN [ret2 EXCEPT ![34] = 1]
        ELSE Take(ret2, 33)

fmt_wif(self) == check_encode_slice(wif_buffer(self))

\* impl Display for SecretKey
Display_fmt(self) == fmt_wif(self)

to_wif(self) == Display_fmt(self)

\* from_wif with its three matches as parameters: the flag per payload
\* length, the network per version byte, whether the scalar goes through the
\* curve library, and whether the version is matched before the length.
from_wif_with(wif, flags, networks, validated, version_first) ==
    LET dec == from_check(wif)
    IN  IF dec.tag # "Ok" THEN Err(dec.err)
        ELSE LET data    == dec.val
                 bad_len == Len(data) \notin DOMAIN flags
                 bad_ver == data[1] \notin DOMAIN networks
                 key     == IF validated THEN SecpSecretKeyFromSlice(SubSeq(data, 2, 33))
                                         ELSE Ok(SubSeq(data, 2, 33))
             IN  IF version_first /\ data = <<>>
                 THEN Panic(Error("Core", "IndexOutOfBounds", <<0>>))
                 ELSE IF version_first /\ bad_ver
                 THEN Err(Error("Base58", "InvalidVersion", <<data[1]>>))
                 ELSE IF bad_len
                 THEN Err(Error("Base58", "InvalidLength", <<Len(data)>>))
                 ELSE IF bad_ver
                 THEN Err(Error("Base58", "InvalidVersion", <<data[1]>>))
                 ELSE IF key.tag # "Ok" THEN Err(key.err)
                 ELSE Ok(SecretKey(flags[Len(data)], networks[data[1]], key.val))

\* from_wif with 33 => true, 34 => false, as from_slice has it.
from_wif_flag_swapped(wif) ==
    from_wif_with(wif, (33 :> TRUE) @@ (34 :> FALSE),
                  (128 :> "Mainnet") @@ (239 :> "Testnet"), TRUE, FALSE)

\* from_wif with the networks of the two version bytes exchanged.
from_wif_network_swapped(wif) ==
    from_wif_with(wif, (33 :> FALSE) @@ (34 :> TRUE),
                  (128 :> "Testnet") @@ (239 :> "Mainnet"), TRUE, FALSE)

\* from_wif taking the 32 bytes as the key without the curve library's check.
from_wif_unvalidated(wif) ==
    from_wif_with(wif, (33 :> FALSE) @@ (34 :> TRUE),
                  (128 :> "Mainnet") @@ (239 :> "Testnet"), FALSE, FALSE)

\* from_wif matching data[0] before data.len().
from_wif_version_first(wif) ==
    from_wif_with(wif, (33 :> FALSE) @@ (34 :> TRUE),
                  (128 :> "Mainnet") @@ (239 :> "Testnet"), TRUE, TRUE)

from_wif(wif) ==
    LET dec == from_check(wif)
    IN  IF dec.tag # "Ok" THEN Err(dec.err)
        ELSE LET data == dec.val
             IN  IF Len(data) \notin {33, 34}
                 THEN Err(Error("Base58", "InvalidLength", <<Len(data)>>))
                 ELSE IF data[1] \notin {128, 239}
                 THEN Err(Error("Base58", "InvalidVersion", <<data[1]>>))
                 ELSE LET compressed == (Len(data) = 34)
                          network    == IF data[1] = 128 THEN "Mainnet" ELSE "Testnet"
                          key        == SecpSecretKeyFromSlice(SubSeq(data, 2, 33))
                      IN  IF key.tag # "Ok" THEN Err(key.err)
                          ELSE Ok(SecretKey(compressed, network, key.val))

\* impl FromStr for SecretKey
from_str(s) == from_wif(s)

from_slice(data) ==
    IF Len(data) \notin {33, 65}
    THEN Err(Error("Base58", "InvalidLength", <<Len(data)>>))
    ELSE LET compressed == (Len(data) = 33)
             key        == SecpSecretKeyFromSlice(data)
         IN  IF key.tag # "Ok" THEN Panic(key.err)
             ELSE Ok(SecretKey(compressed, "Mainnet", key.val))

\* sign_hash calling the plain signing call instead of the canonical one.
sign_hash_plain(self, hash) ==
    LET msg == SecpMessageFromSlice(hash)
    IN  IF msg.tag # "Ok" THEN Err(msg.err)
        ELSE Ok(SignatureFrom(SecpSignRecoverable(msg.val, self.key)))

sign_hash(self, hash) ==
    LET msg == SecpMessageFromSlice(hash)
    IN  IF msg.tag # "Ok" THEN Err(msg.err)
        ELSE Ok(SignatureFrom(SecpSignCanonical(msg.val, self.key)))

sign(self, message) == sign_hash(self, Sha256(message))

(***************************************************************************)
(* The inputs the caller draws from.                                       *)
(***************************************************************************)
MaxTail == 2

MaxMsgLen == 2

MaxDraws == 2

SeqsUpTo(S, n) == UNION {[1..k -> S] : k \in 0..n}

ScalarZero == Rep(0, 32)

ScalarOne == Rep(0, 31) \o <<1>>

ScalarMax == Take(CURVE_ORDER, 31) \o <<64>>

Scalars == {ScalarZero, ScalarOne, ScalarMax, CURVE_ORDER}

ValidScalars == {x \in Scalars : ValidScalar(x)}

Versions == {0, 128, 239}

\* Payloads of 33 bytes and more: a version byte, 32 bytes, trailing bytes.
LongPayloads ==
    {<<v>> \o x \o t : v \in Versions, x \in Scalars, t \in SeqsUpTo({1, 2}, MaxTail)}

\* Payloads cut short of 33 bytes.
ShortPayloads == {Take(<<v>> \o ScalarMax, n) : v \in Versions, n \in {0, 1, 32}}

Payloads == LongPayloads \cup ShortPayloads

\* Payloads whose text is then damaged: one well-formed, one wrong in
\* length, version and scalar at once.
DamagedPayloads == {<<128>> \o ScalarOne, <<0>> \o ScalarZero \o <<1, 1>>}

BadChecksumTexts ==
    {encode_slice(p \o [i \in 1..4 |-> (checksum(p)[i] + 1) % 256]) : p \in DamagedPayloads}

BadByteTexts ==
    {[check_encode_slice(p) EXCEPT ![k] = c] : p \in DamagedPayloads, k \in {1, 20}, c \in {"0", "l"}}

ShortTexts == {<<>>, <<"1">>, <<"2", "g">>}

WifTexts ==
    {check_encode_slice(p) : p \in Payloads}
        \cup BadChecksumTexts \cup BadByteTexts \cup ShortTexts

\* The texts parsed through FromStr.
StrTexts ==
    {check_encode_slice(p) : p \in DamagedPayloads}
        \cup BadChecksumTexts \cup BadByteTexts \cup ShortTexts

\* Raw byte strings handed to from_slice.
Slices ==
    {Rep(f, n) : f \in {0, 255}, n \in {0, 32, 33, 34, 64, 65, 66}}
        \cup {x \o Rep(1, n) : x \in Scalars, n \in {0, 1, 33}}

Messages == SeqsUpTo({104, 105}, MaxMsgLen)

\* Digests handed to sign_hash: well-formed ones and ones of a wrong length.
Hashes ==
    {Sha256(m) : m \in Messages}
        \cup {Take(Sha256(<<>>), 31), Sha256(<<>>) \o <<0>>, <<>>}

\* What the random source may yield to generate: draws ending in a valid one.
DrawSeqs ==
    {d \o <<x>> : d \in SeqsUpTo(Scalars \ ValidScalars, MaxDraws - 1), x \in ValidScalars}

\* The operations are functions of their inputs alone: each is applied once
\* to every input, and a step of the caller picks one of these applications.
GenerateCases == {<<d, generate(d)>> : d \in DrawSeqs}

WifCases == {<<t, from_wif(t)>> : t \in WifTexts}

StrCases == {<<t, from_str(t)>> : t \in StrTexts}

SliceCases == {<<d, from_slice(d)>> : d \in Slices}

\* The keys a caller can hold: every value of the struct over the scalars in use.
Keys == [compressed : BOOLEAN, network : {"Mainnet", "Testnet"}, key : Scalars]

BytesCases == {<<k, to_bytes(k)>> : k \in Keys}

\* The key, the buffer encoded, and the text written.
FmtWifCases == {<<k, wif_buffer(k), fmt_wif(k)>> : k \in Keys}

DisplayCases == {<<k, wif_buffer(k), Display_fmt(k)>> : k \in Keys}

ToWifCases == {<<k, wif_buffer(k), to_wif(k)>> : k \in Keys}

SignCases == {<<k, m, sign(k, m)>> : k \in Keys, m \in Messages}

SignHashCases == {<<k, h, sign_hash(k, h)>> : k \in Keys, h \in Hashes}

(***************************************************************************)
(* The caller: holds at most one key (sk), and records the last operation  *)
(* (call), its outcome (ret) and the bytes last handed to the Base58Check  *)
(* encoder (encoded).  A panic ends the caller.                            *)
(***************************************************************************)
Call(op, arg) == [op |-> op, arg |-> arg]

Running == ret.tag # "Panic"

HasKey == sk # NoKey

Init ==
    /\ sk = NoKey
    /\ call = Call("start", <<>>)
    /\ ret = Ok(<<>>)
    /\ encoded = <<>>

\* The caller keeps a key a constructor returned, and its old one otherwise.
Kept(outcome) == IF outcome.tag = "Ok" THEN outcome.val ELSE sk

Generate ==
    /\ Running
    /\ \E c \in GenerateCases :
        /\ call' = Call("generate", c[1])
        /\ ret' = Ok(c[2])
        /\ sk' = c[2]
    /\ encoded' = <<>>

FromWif ==
    /\ Running
    /\ \E c \in WifCases :
        /\ call' = Call("from_wif", c[1])
        /\ ret' = c[2]
        /\ sk' = Kept(c[2])
    /\ encoded' = <<>>

FromStr ==
    /\ Running
    /\ \E c \in StrCases :
        /\ call' = Call("from_str", c[1])
        /\ ret' = c[2]
        /\ sk' = Kept(c[2])
    /\ encoded' = <<>>

FromSlice ==
    /\ Running
    /\ \E c \in SliceCases :
        /\ call' = Call("from_slice", c[1])
        /\ ret' = c[2]
        /\ sk' = Kept(c[2])
    /\ encoded' = <<>>

ToBytes ==
    /\ Running
    /\ HasKey
    /\ \E c \in BytesCases :
        /\ c[1] = sk
        /\ call' = Call("to_bytes", <<>>)
        /\ ret' = Ok(c[2])
    /\ encoded' = <<>>
    /\ UNCHANGED sk

FmtWif ==
    /\ Running
    /\ HasKey
    /\ \E c \in FmtWifCases :
        /\ c[1] = sk
        /\ call' = Call("fmt_wif", <<>>)
        /\ encoded' = c[2]
        /\ ret' = Ok(c[3])
    /\ UNCHANGED sk

DisplayFmt ==
    /\ Running
    /\ HasKey
    /\ \E c \in DisplayCases :
        /\ c[1] = sk
        /\ call' = Call("fmt", <<>>)
        /\ encoded' = c[2]
        /\ ret' = Ok(c[3])
    /\ UNCHANGED sk

ToWif ==
    /\ Running
    /\ HasKey
    /\ \E c \in ToWifCases :
        /\ c[1] = sk
        /\ call' = Call("to_wif", <<>>)
        /\ encoded' = c[2]
        /\ ret' = Ok(c[3])
    /\ UNCHANGED sk

Sign ==
    /\ Running
    /\ HasKey
    /\ \E c \in SignCases :
        /\ c[1] = sk
        /\ call' = Call("sign", c[2])
        /\ ret' = c[3]
    /\ encoded' = <<>>
    /\ UNCHANGED sk

SignHash ==
    /\ Running
    /\ HasKey
    /\ \E c \in SignHashCases :
        /\ c[1] = sk
        /\ call' = Call("sign_hash", c[2])
        /\ ret' = c[3]
    /\ encoded' = <<>>
    /\ UNCHANGED sk

Next ==
    \/ Generate
    \/ FromWif
    \/ FromStr
    \/ FromSlice
    \/ ToBytes
    \/ FmtWif
    \/ DisplayFmt
    \/ ToWif
    \/ Sign
    \/ SignHash

Spec == Init /\ [][Next]_vars

(***************************************************************************)
(* Properties.                                                             *)
(***************************************************************************)
InvalidLength(n) == Error("Base58", "InvalidLength", <<n>>)

InvalidVersion(b) == Error("Base58", "InvalidVersion", <<b>>)

\* The last call parsed WIF text.
Parsed == call.op \in {"from_wif", "from_str"}

\* The last call wrote WIF text.
Wrote == call.op \in {"to_wif", "fmt", "fmt_wif"}

\* The Base58Check decoding of the text the last call parsed.
Decoded == from_check(call.arg)

\* C1: to_wif followed by from_wif gives back the key: same scalar, same
\* compressed flag, same network.
C1_RoundTrip ==
    (call.op = "to_wif" /\ ret.tag = "Ok") => from_wif(ret.val) = Ok(sk)

C1_Witness ==
    /\ call.op = "to_wif"
    /\ sk.compressed
    /\ sk.network = "Testnet"
    /\ ValidScalar(sk.key)
    /\ from_wif(ret.val) = Ok(sk)

\* C2: from_slice never panics: it returns a key or an error value for every
\* byte slice, those of length 33 and 65 included.
C2_FromSliceNeverPanics ==
    call.op = "from_slice" => ret.tag \in {"Ok", "Err"}

\* C3: from_wif returns a compressed key only for a 34-byte payload whose
\* last byte is the compression marker 0x01.
C3_MarkerChecked ==
    (call.op = "from_wif" /\ ret.tag = "Ok" /\ ret.val.compressed)
        => (Len(Decoded.val) = 34 /\ Decoded.val[34] = 1)

\* C4: a decoded payload of length n outside {33, 34} gives
\* Err(InvalidLength(n)) and no key; a key from 33 bytes is uncompressed and a
\* key from 34 bytes is compressed.
C4_WifLength ==
    (call.op = "from_wif" /\ Decoded.tag = "Ok") =>
        LET n == Len(Decoded.val)
        IN  /\ n \notin {33, 34} => ret = Err(InvalidLength(n))
            /\ ret.tag = "Ok" =>
                /\ n \in {33, 34}
                /\ ret.val.compressed = (n = 34)
                /\ sk = ret.val

C4_Witness ==
    /\ call.op = "from_wif"
    /\ Decoded.tag = "Ok"
    /\ Len(Decoded.val) = 35
    /\ Decoded.val[1] = 128
    /\ ValidScalar(SubSeq(Decoded.val, 2, 33))
    /\ ret = Err(InvalidLength(35))

\* C5: a payload of length 33 or 34 whose first byte b is neither 128 nor 239
\* gives Err(InvalidVersion([b])); 128 gives Mainnet and 239 gives Testnet,
\* the bytes to_wif writes for these networks.
C5_WifVersion ==
    /\ (call.op = "from_wif" /\ Decoded.tag = "Ok" /\ Len(Decoded.val) \in {33, 34}) =>
            LET b == Decoded.val[1]
            IN  /\ b \notin {128, 239} => ret = Err(InvalidVersion(b))
                /\ ret.tag = "Ok" =>
                    /\ b = 128 => ret.val.network = "Mainnet"
                    /\ b = 239 => ret.val.network = "Testnet"
    /\ Wrote =>
            /\ sk.network = "Mainnet" => encoded[1] = 128
            /\ sk.network = "Testnet" => encoded[1] = 239

C5_Witness ==
    /\ call.op = "from_wif"
    /\ Decoded.tag = "Ok"
    /\ Len(Decoded.val) = 34
    /\ Decoded.val[1] = 0
    /\ ValidScalar(SubSeq(Decoded.val, 2, 33))
    /\ ret = Err(InvalidVersion(0))

\* C6: a slice of length n outside {33, 65} gives Err(InvalidLength(n)); a
\* slice of length 33 gives a compressed Mainnet key and one of length 65 an
\* uncompressed Mainnet key, or the curve library's error as a value.
C6_SliceLength ==
    call.op = "from_slice" =>
        LET n == Len(call.arg)
        IN  IF n \notin {33, 65}
            THEN ret = Err(InvalidLength(n))
            ELSE \/ /\ ret.tag = "Ok"
                    /\ ret.val.network = "Mainnet"
                    /\ ret.val.compressed = (n = 33)
                 \/ /\ ret.tag = "Err"
                    /\ ret.err = InvalidSecretKey

\* C7: every signature that sign or sign_hash returns is canonical.
C7_Canonical ==
    (call.op \in {"sign", "sign_hash"} /\ ret.tag = "Ok") => is_canonical(ret.val)

\* sign returned a signature whose S the plain signing call leaves high.
C7_Witness ==
    /\ call.op = "sign"
    /\ ret.tag = "Ok"
    /\ is_canonical(ret.val)
    /\ ~IsLowS(SecpSignRecoverable(Sha256(call.arg), sk.key).s)

\* C8: the buffer handed to check_encode_slice is the version byte, the 32
\* scalar bytes, and 0x01 when compressed: 33 or 34 bytes; the text returned
\* is its encoding, and to_wif, Display and fmt_wif give the same text.
C8_WifLayout ==
    Wrote =>
        /\ encoded[1] = (IF sk.network = "Mainnet" THEN 128 ELSE 239)
        /\ SubSeq(encoded, 2, 33) = sk.key
        /\ Len(encoded) = (IF sk.compressed THEN 34 ELSE 33)
        /\ sk.compressed => encoded[34] = 1
        /\ ret = Ok(check_encode_slice(encoded))
        /\ to_wif(sk) = ret.val
        /\ Display_fmt(sk) = ret.val
        /\ fmt_wif(sk) = ret.val

C8_Witness ==
    /\ call.op = "to_wif"
    /\ sk.compressed
    /\ sk.network = "Testnet"
    /\ Len(encoded) = 34
    /\ encoded[34] = 1
    /\ ret = Ok(check_encode_slice(encoded))

\* C9: every key a constructor returns, and so every key held, has a scalar
\* that is nonzero and below the curve order; a payload with a good
\* checksum, length and version and a scalar out of range gives the curve
\* library's error and no key.
C9_ScalarValid ==
    /\ HasKey => ValidScalar(sk.key)
    /\ (call.op \in {"generate", "from_wif", "from_str", "from_slice"} /\ ret.tag = "Ok")
            => (ValidScalar(ret.val.key) /\ sk = ret.val)
    /\ ( /\ call.op = "from_wif"
         /\ Decoded.tag = "Ok"
         /\ Len(Decoded.val) \in {33, 34}
         /\ Decoded.val[1] \in {128, 239}
         /\ ~ValidScalar(SubSeq(Decoded.val, 2, 33)) )
            => ret = Err(InvalidSecretKey)

C9_Witness ==
    /\ call.op = "from_wif"
    /\ Decoded.tag = "Ok"
    /\ Len(Decoded.val) = 33
    /\ Decoded.val[1] = 128
    /\ SubSeq(Decoded.val, 2, 33) = CURVE_ORDER
    /\ ret = Err(InvalidSecretKey)

\* C10: from_wif reports the first failure only, in this order: Base58Check
\* decoding, payload length, version, scalar.
C10_ErrorOrder ==
    call.op = "from_wif" =>
        IF Decoded.tag # "Ok" THEN ret = Err(Decoded.err)
        ELSE IF Len(Decoded.val) \notin {33, 34}
        THEN ret = Err(InvalidLength(Len(Decoded.val)))
        ELSE IF Decoded.val[1] \notin {128, 239}
        THEN ret = Err(InvalidVersion(Decoded.val[1]))
        ELSE IF ~ValidScalar(SubSeq(Decoded.val, 2, 33))
        THEN ret = Err(InvalidSecretKey)
        ELSE ret.tag = "Ok"

\* A payload wrong in length, version and scalar at once is reported as a
\* length error.
C10_Witness ==
    /\ call.op = "from_wif"
    /\ Decoded.tag = "Ok"
    /\ Len(Decoded.val) = 35
    /\ Decoded.val[1] \notin {128, 239}
    /\ ~ValidScalar(SubSeq(Decoded.val, 2, 33))
    /\ ret = Err(InvalidLength(35))

====
